---- MODULE Spec2Model ----
(***************************************************************************)
(* One invocation of lambda_handler (src/LamndaCostWatchdog.py): fifteen   *)
(* check-and-act steps against the resource provider, followed by the      *)
(* rendering of the report and the return of the result.                   *)
(*                                                                         *)
(* Every call into the provider (boto3 client) is an input of the step     *)
(* that makes it: its response, or the fact that it raises, is drawn from  *)
(* a bounded set.  An exception raised outside a try block propagates out  *)
(* of lambda_handler: the invocation ends in pc = "aborted" with no        *)
(* result.                                                                 *)
(*                                                                         *)
(* Units.  Money is counted in cents (0.05 is 5, 18.25 is 1825).  Storage  *)
(* is counted in MiB (2^20 bytes), so 1024^3 bytes is 1024 units and       *)
(* 5368709120 bytes is 5120 units.  Instants are seconds.                  *)
(***************************************************************************)
EXTENDS Integers, Sequences, FiniteSets, TLC

VARIABLES
    pc,            \* position in lambda_handler: "step1" .. "step15", "report", "done", "aborted"
    summary,       \* the list `summary`
    cost_savings,  \* the number `cost_savings`, in cents
    buckets,       \* the list `buckets` read by step 4 and used again by step 6
    loc,           \* locals and provider calls of the step that ran last
    report,        \* the string `report`, as its sequence of lines
    result,        \* the returned dictionary, or NoResult
    profile        \* sizes of the provider's listings in this invocation

vars == <<pc, summary, cost_savings, buckets, loc, report, result, profile>>

----------------------------------------------------------------------------
(* Bounds of the model *)

MaxItems == 2      \* longest listing a step in the profile's focus reads
MaxServices == 6   \* most services in one period of a cost response
MaxPeriods == 2    \* most periods in a cost response

(* Program constants *)

SNAPSHOT_RETENTION_DAYS == 30
CLEANUP_UNTAGGED_AFTER_DAYS == 7
LOW_CPU_THRESHOLD == 5
EC2_FREE_HOURS == 750
RDS_FREE_HOURS == 750
S3_FREE_GB == 5
LAMBDA_FREE_INVOCATIONS == 1000000
LOG_RETENTION_DAYS == 30
SNAPSHOT_SAVING == 5
ALB_SAVING == 1825
TOP_N == 5
HOURS_PER_MONTH == 24 * 30
DAY == 86400
GB == 1024

----------------------------------------------------------------------------
(* Generic helpers *)

NoResult == [status |-> "none"]

SeqsUpTo(S, n) == UNION {[1..m -> S] : m \in 0..n}

Ids(n) == [i \in 1..n |-> i]

RECURSIVE SumSeq(_)
SumSeq(s) == IF s = <<>> THEN 0 ELSE Head(s) + SumSeq(Tail(s))

RECURSIVE Flatten(_)
Flatten(ss) == IF ss = <<>> THEN <<>> ELSE Head(ss) \o Flatten(Tail(ss))

(* format(x, ".<d>f") of the exact value num / den, as an integer number of
   10^-d units: round to nearest, ties to even.  `scale` is 10^d. *)
Fmt(num, den, scale) ==
    LET q == (num * scale) \div den
        r == (num * scale) % den
    IN  IF 2 * r > den THEN q + 1
        ELSE IF 2 * r < den THEN q
        ELSE IF q % 2 = 0 THEN q ELSE q + 1

(* One element of `summary`: the f-string of the given step, with the values
   it interpolates. *)
Entry(k, text, ids, nums) == [step |-> k, text |-> text, ids |-> ids, nums |-> nums]

(* `if found: summary.append(entry)`, the shape of steps 9 to 14: what the step
   appends to `summary`. *)
(* variant: the entry is appended whether or not anything was found *)
OptionalAlways(found, entry) == <<entry>>

Optional(found, entry) == IF found THEN <<entry>> ELSE <<>>

----------------------------------------------------------------------------
(* Sizes of the listings.  `profile` is the step whose listings are the
   longest in this invocation (up to MaxItems); the other steps of its group
   read listings of at most one item and the steps of the other groups read
   empty listings.  Step 6 walks the buckets step 4 listed, so both are long
   together.  Whatever the profile, every call of every step may raise. *)

Profiles == 1..15

Group(k) ==
    IF k <= 3 THEN 1 ELSE IF k <= 8 THEN 2 ELSE IF k <= 12 THEN 3 ELSE IF k <= 14 THEN 4 ELSE 5

Focus(p) == IF p = 6 THEN {4, 6} ELSE {p}

Size(k) ==
    IF k \in Focus(profile) THEN MaxItems
    ELSE IF Group(k) = Group(profile) THEN 1 ELSE 0

----------------------------------------------------------------------------
(* The instances the provider may list.  SecurityGroups holds group ids. *)

Instance(id, state, sgs) == [InstanceId |-> id, State |-> state, SecurityGroups |-> sgs]

ReservationPool ==
    { <<Instance(1, "stopped", <<1>>)>>,
      <<Instance(2, "running", <<2>>)>>,
      <<Instance(3, "terminated", <<1>>)>>,
      <<Instance(4, "running", <<1, 2>>), Instance(5, "stopped", <<>>)>>,
      <<Instance(6, "running", <<>>), Instance(7, "running", <<3>>)>> }

InstanceListings(n) == SeqsUpTo(ReservationPool, n)

RunningPool == {r \in ReservationPool : \A i \in 1..Len(r) : r[i].State = "running"}

----------------------------------------------------------------------------
Init ==
    /\ pc = "step1"
    /\ summary = <<>>
    /\ cost_savings = 0
    /\ buckets = <<>>
    /\ loc = [step |-> 0]
    /\ report = <<>>
    /\ result = NoResult
    /\ profile \in Profiles

(* An exception leaves lambda_handler: nothing is returned. *)
Raise(k, calls) ==
    /\ pc' = "aborted"
    /\ loc' = [step |-> k, raised |-> TRUE, calls |-> calls]
    /\ UNCHANGED <<summary, buckets, report, result, profile>>

----------------------------------------------------------------------------
(* 1. Terminate stopped EC2 instances *)

Stopped(reservations) ==
    LET all == Flatten(reservations)
        IsStopped(i) == i.State = "stopped"
        sel == SelectSeq(all, IsStopped)
    IN  [j \in 1..Len(sel) |-> sel[j].InstanceId]

Step1 ==
    /\ pc = "step1"
    /\ \/ Raise(1, <<>>) /\ UNCHANGED cost_savings          \* describe_instances raises
       \/ \E reservations \in InstanceListings(Size(1)), terminate_ok \in BOOLEAN :
            LET stopped == Stopped(reservations) IN
            IF stopped # <<>> /\ ~terminate_ok
            THEN Raise(1, <<>>) /\ UNCHANGED cost_savings   \* terminate_instances raises
            ELSE /\ summary' = Append(summary,
                        IF stopped # <<>>
                        THEN Entry(1, "Terminated stopped EC2 instances", stopped, <<>>)
                        ELSE Entry(1, "No stopped EC2 instances found.", <<>>, <<>>))
                 /\ loc' = [step |-> 1, raised |-> FALSE, calls |-> stopped]
                 /\ pc' = "step2"
                 /\ UNCHANGED <<cost_savings, buckets, report, result, profile>>

(* 2. Delete unattached EBS volumes.  The listing is filtered by the provider;
   `failAt` is the position of the first delete_volume that raises (0: none). *)
Step2 ==
    /\ pc = "step2"
    /\ \/ Raise(2, <<>>) /\ UNCHANGED cost_savings          \* describe_volumes raises
       \/ \E n \in 0..Size(2) : \E failAt \in 0..n :
            LET unused_volumes == Ids(n) IN
            IF failAt > 0
            THEN Raise(2, SubSeq(unused_volumes, 1, failAt - 1)) /\ UNCHANGED cost_savings
            ELSE /\ summary' = Append(summary,
                        IF unused_volumes # <<>>
                        THEN Entry(2, "Deleted unused EBS volumes", unused_volumes, <<>>)
                        ELSE Entry(2, "No unattached EBS volumes found.", <<>>, <<>>))
                 /\ loc' = [step |-> 2, raised |-> FALSE, calls |-> unused_volumes]
                 /\ pc' = "step3"
                 /\ UNCHANGED <<cost_savings, buckets, report, result, profile>>

(* 3. Release unused Elastic IPs.  attached[i] says whether address i carries
   an InstanceId. *)
UnattachedEips(attached) ==
    LET Free(i) == ~attached[i] IN SelectSeq(Ids(Len(attached)), Free)

Step3 ==
    /\ pc = "step3"
    /\ \/ Raise(3, <<>>) /\ UNCHANGED cost_savings          \* describe_addresses raises
       \/ \E attached \in SeqsUpTo(BOOLEAN, Size(3)) :
            LET unattached_eips == UnattachedEips(attached) IN
            \E failAt \in 0..Len(unattached_eips) :
            IF failAt > 0
            THEN Raise(3, SubSeq(unattached_eips, 1, failAt - 1)) /\ UNCHANGED cost_savings
            ELSE /\ summary' = Append(summary,
                        IF unattached_eips # <<>>
                        THEN Entry(3, "Released unused Elastic IPs", unattached_eips, <<>>)
                        ELSE Entry(3, "No unattached Elastic IPs found.", <<>>, <<>>))
                 /\ loc' = [step |-> 3, raised |-> FALSE, calls |-> unattached_eips]
                 /\ pc' = "step4"
                 /\ UNCHANGED <<cost_savings, buckets, report, result, profile>>

(* 4. Delete empty S3 buckets.  One response per bucket: list_objects_v2 may
   raise, its answer may lack KeyCount, delete_bucket may raise. *)
BucketResponse(list_ok, has_count, count, delete_ok) ==
    [list_ok |-> list_ok, has_count |-> has_count, KeyCount |-> count, delete_ok |-> delete_ok]

BucketResponses ==
    { BucketResponse(FALSE, FALSE, 0, TRUE),
      BucketResponse(TRUE, FALSE, 0, TRUE),
      BucketResponse(TRUE, TRUE, 0, TRUE),
      BucketResponse(TRUE, TRUE, 0, FALSE),
      BucketResponse(TRUE, TRUE, 1, TRUE) }

(* objs.get('KeyCount', 0) == 0 *)
IsEmptyBucket(r) == (IF r.has_count THEN r.KeyCount ELSE 0) = 0

(* the names of the buckets whose delete_bucket call returned *)
DeletedBuckets(names, resp) ==
    LET Gone(b) == resp[b].list_ok /\ IsEmptyBucket(resp[b]) /\ resp[b].delete_ok
    IN  SelectSeq(names, Gone)

Step4 ==
    /\ pc = "step4"
    /\ \/ Raise(4, <<>>) /\ UNCHANGED cost_savings          \* list_buckets raises
       \/ \E n \in 0..Size(4) : \E resp \in [1..n -> BucketResponses] :
            LET names == Ids(n)
                deleted == DeletedBuckets(names, resp)
            IN  /\ buckets' = names
                /\ summary' = summary \o
                       [j \in 1..Len(deleted) |->
                           Entry(4, "Deleted empty S3 bucket", <<deleted[j]>>, <<>>)]
                /\ loc' = [step |-> 4, raised |-> FALSE, calls |-> deleted]
                /\ pc' = "step5"
                /\ UNCHANGED <<cost_savings, report, result, profile>>

(* 5. Check EC2 usage.  The estimate counts the reservations of the filtered
   listing. *)
InstanceHours(running) == Len(running) * HOURS_PER_MONTH

Ec2Exceeds(hours) == hours > EC2_FREE_HOURS

Step5 ==
    /\ pc = "step5"
    /\ \/ Raise(5, <<>>) /\ UNCHANGED cost_savings  \* get_metric_statistics or describe_instances raises
       \/ \E running \in SeqsUpTo(RunningPool, Size(5)) :
            LET instance_hours == InstanceHours(running) IN
            /\ summary' = Append(summary,
                   IF Ec2Exceeds(instance_hours)
                   THEN Entry(5, "EC2 usage likely exceeds Free Tier", <<>>, <<instance_hours>>)
                   ELSE Entry(5, "EC2 usage within free-tier limits", <<>>, <<instance_hours>>))
            /\ loc' = [step |-> 5, raised |-> FALSE, usage |-> instance_hours]
            /\ pc' = "step6"
            /\ UNCHANGED <<cost_savings, buckets, report, result, profile>>

(* 6. Check S3 usage.  One metric response per bucket: the call may raise,
   else it carries the Average of each data point, in storage units.
   total_storage_gb is kept as its numerator over GB: each term
   bytes_used / 1024 ** 3 is exact in binary floating point. *)
MetricResponse(ok, datapoints) == [ok |-> ok, Datapoints |-> datapoints]

SizeMetricResponses ==
    { MetricResponse(FALSE, <<>>),
      MetricResponse(TRUE, <<>>),
      MetricResponse(TRUE, <<5 * GB>>),
      MetricResponse(TRUE, <<5 * GB + 1>>),
      MetricResponse(TRUE, <<9 * GB, (5 * GB) \div 2>>) }

(* bytes_used of one bucket, 0 when nothing is added for it *)
BytesUsed(r) ==
    IF r.ok /\ r.Datapoints # <<>> THEN r.Datapoints[Len(r.Datapoints)] ELSE 0

TotalStorage(resp) == SumSeq([b \in 1..Len(resp) |-> BytesUsed(resp[b])])

(* variant: the ceiling itself counts as exceeded *)
S3ExceedsInclusive(total) == total >= S3_FREE_GB * GB

S3Exceeds(total) == total > S3_FREE_GB * GB

Step6 ==
    /\ pc = "step6"
    /\ \E resp \in [1..Len(buckets) -> SizeMetricResponses] :
         LET total_storage_gb == TotalStorage(resp) IN
         /\ summary' = Append(summary,
                IF S3Exceeds(total_storage_gb)
                THEN Entry(6, "S3 storage exceeds free tier", <<>>, <<Fmt(total_storage_gb, GB, 100)>>)
                ELSE Entry(6, "S3 storage within free tier", <<>>, <<Fmt(total_storage_gb, GB, 100)>>))
         /\ loc' = [step |-> 6, raised |-> FALSE, usage |-> total_storage_gb, resp |-> resp]
         /\ pc' = "step7"
         /\ UNCHANGED <<cost_savings, buckets, report, result, profile>>

(* 7. Check Lambda usage: the Sum of every data point of the window. *)
InvocationSums == {1, 999999, LAMBDA_FREE_INVOCATIONS, LAMBDA_FREE_INVOCATIONS + 1}

TotalInvocations(datapoints) == SumSeq(datapoints)

LambdaExceeds(total) == total > LAMBDA_FREE_INVOCATIONS

Step7 ==
    /\ pc = "step7"
    /\ \/ Raise(7, <<>>) /\ UNCHANGED cost_savings          \* get_metric_statistics raises
       \/ \E datapoints \in SeqsUpTo(InvocationSums, Size(7)) :
            LET total_invocations == TotalInvocations(datapoints) IN
            /\ summary' = Append(summary,
                   IF LambdaExceeds(total_invocations)
                   THEN Entry(7, "Lambda usage exceeded free tier", <<>>, <<total_invocations>>)
                   ELSE Entry(7, "Lambda usage within free tier", <<>>, <<total_invocations>>))
            /\ loc' = [step |-> 7, raised |-> FALSE, usage |-> total_invocations,
                       datapoints |-> datapoints]
            /\ pc' = "step8"
            /\ UNCHANGED <<cost_savings, buckets, report, result, profile>>

(* 8. Check RDS usage: hours of the instances whose status is available. *)
ActiveRds(statuses) ==
    LET Available(i) == statuses[i] = "available" IN SelectSeq(Ids(Len(statuses)), Available)

RdsHours(statuses) == Len(ActiveRds(statuses)) * HOURS_PER_MONTH

RdsExceeds(hours) == hours > RDS_FREE_HOURS

Step8 ==
    /\ pc = "step8"
    /\ \/ Raise(8, <<>>) /\ UNCHANGED cost_savings          \* describe_db_instances raises
       \/ \E statuses \in SeqsUpTo({"available", "stopped"}, Size(8)) :
            LET rds_hours == RdsHours(statuses) IN
            /\ summary' = Append(summary,
                   IF RdsExceeds(rds_hours)
                   THEN Entry(8, "RDS usage likely exceeds Free Tier", <<>>, <<rds_hours>>)
                   ELSE Entry(8, "RDS usage within free tier", <<>>, <<rds_hours>>))
            /\ loc' = [step |-> 8, raised |-> FALSE, usage |-> rds_hours]
            /\ pc' = "step9"
            /\ UNCHANGED <<cost_savings, buckets, report, result, profile>>

(* get_resource_age: timedelta.days of (now - creation_date), the floor of the
   elapsed time in days.  `now` is the clock reading of the call. *)
get_resource_age(creation_date, now) == (now - creation_date) \div DAY

T0 == 40 * DAY

ClockReadings == {T0, T0 + 1}

SnapshotInstants ==
    { T0 - 31 * DAY,                  \* 31 days
      T0 - 31 * DAY + 1,              \* 30 days 23:59:59, 31 days one second later
      T0 - 30 * DAY - 1,              \* 30 days and 1 second
      T0 - (29 * DAY + 23 * 3600),    \* 29 days and 23 hours
      T0 + 2 }                        \* later than every clock reading

VolumeInstants ==
    { T0 - 8 * DAY,                   \* 8 days
      T0 - 8 * DAY + 1,               \* 7 days 23:59:59, 8 days one second later
      T0 - 7 * DAY,                   \* 7 days
      T0 + 2 }                        \* later than every clock reading

(* 9. Delete old EBS snapshots.  StartTime[i] is the creation instant of
   snapshot i, now[i] the clock reading of its get_resource_age call and
   delete_ok[j] whether the j-th delete_snapshot call returns. *)
(* variant: a snapshot at the threshold counts as old *)
IsOldSnapshotInclusive(age) == age >= SNAPSHOT_RETENTION_DAYS

IsOldSnapshot(age) == age > SNAPSHOT_RETENTION_DAYS

OldSnapshots(StartTime, now) ==
    LET Old(i) == IsOldSnapshot(get_resource_age(StartTime[i], now[i]))
    IN  SelectSeq(Ids(Len(StartTime)), Old)

(* variant: one saving however many snapshots are counted *)
SnapshotSavingsFlat(old_snapshots) == SNAPSHOT_SAVING

SnapshotSavings(old_snapshots) == Len(old_snapshots) * SNAPSHOT_SAVING

Step9 ==
    /\ pc = "step9"
    /\ \/ Raise(9, <<>>) /\ UNCHANGED cost_savings          \* describe_snapshots raises
       \/ \E StartTime \in SeqsUpTo(SnapshotInstants, Size(9)) :
          \E now \in [1..Len(StartTime) -> ClockReadings] :
          \E delete_ok \in [1..Len(OldSnapshots(StartTime, now)) -> BOOLEAN] :
            LET old_snapshots == OldSnapshots(StartTime, now)
                succeeded == SelectSeq(Ids(Len(old_snapshots)), LAMBDA j : delete_ok[j])
            IN  /\ summary' = summary \o
                       Optional(old_snapshots # <<>>,
                                Entry(9, "Deleted old snapshots", <<>>, <<Len(old_snapshots)>>))
                /\ cost_savings' = IF old_snapshots # <<>>
                                   THEN cost_savings + SnapshotSavings(old_snapshots)
                                   ELSE cost_savings
                /\ loc' = [step |-> 9, raised |-> FALSE, StartTime |-> StartTime, now |-> now,
                           calls |-> old_snapshots,
                           succeeded |-> [j \in 1..Len(succeeded) |-> old_snapshots[succeeded[j]]]]
                /\ pc' = "step10"
                /\ UNCHANGED <<buckets, report, result, profile>>

(* 10. Remove unused security groups *)
SecurityGroup(id, name) == [GroupId |-> id, GroupName |-> name]

SecurityGroupPool ==
    { SecurityGroup(1, "default"), SecurityGroup(1, "web"), SecurityGroup(2, "web"),
      SecurityGroup(3, "db") }

(* variant: only running instances keep their groups in use *)
UsedSgsRunningOnly(reservations) ==
    LET all == Flatten(reservations) IN
    UNION { {all[i].SecurityGroups[j] : j \in 1..Len(all[i].SecurityGroups)} :
            i \in {i \in 1..Len(all) : all[i].State = "running"} }

UsedSgs(reservations) ==
    LET all == Flatten(reservations) IN
    UNION { {all[i].SecurityGroups[j] : j \in 1..Len(all[i].SecurityGroups)} :
            i \in {i \in 1..Len(all) : all[i].State # "terminated"} }

IsUnusedSg(sg, used_sgs) == sg.GroupName # "default" /\ sg.GroupId \notin used_sgs

(* positions of the groups passed to delete_security_group *)
SgDeleteCalls(security_groups, reservations) ==
    LET Unused(i) == IsUnusedSg(security_groups[i], UsedSgs(reservations))
    IN  SelectSeq(Ids(Len(security_groups)), Unused)

Step10 ==
    /\ pc = "step10"
    /\ \/ Raise(10, <<>>) /\ UNCHANGED cost_savings  \* describe_security_groups or describe_instances raises
       \/ \E security_groups \in SeqsUpTo(SecurityGroupPool, Size(10)) :
          \E reservations \in InstanceListings(Size(10)) :
          \E delete_ok \in [1..Len(SgDeleteCalls(security_groups, reservations)) -> BOOLEAN] :
            LET calls == SgDeleteCalls(security_groups, reservations)
                succeeded == SelectSeq(Ids(Len(calls)), LAMBDA j : delete_ok[j])
                unused_sgs == [j \in 1..Len(succeeded) |-> calls[succeeded[j]]]
            IN  /\ summary' = summary \o
                       Optional(unused_sgs # <<>>,
                                Entry(10, "Deleted unused security groups", <<>>, <<Len(unused_sgs)>>))
                /\ loc' = [step |-> 10, raised |-> FALSE, security_groups |-> security_groups,
                           reservations |-> reservations, calls |-> calls,
                           succeeded |-> unused_sgs]
                /\ pc' = "step11"
                /\ UNCHANGED <<cost_savings, buckets, report, result, profile>>

(* 11. Delete unused load balancers.  One response per load balancer:
   describe_target_groups may raise, which leaves the loop and the handler;
   delete_load_balancer may raise, which is caught. *)
LbResponse(targets_ok, has_targets, delete_ok) ==
    [targets_ok |-> targets_ok, has_targets |-> has_targets, delete_ok |-> delete_ok]

LbResponses ==
    { LbResponse(FALSE, FALSE, TRUE), LbResponse(TRUE, TRUE, TRUE),
      LbResponse(TRUE, FALSE, TRUE), LbResponse(TRUE, FALSE, FALSE) }

(* the load balancers the loop reaches: all of them, or those before the first
   describe_target_groups that raises *)
LbReached(resp) ==
    LET bad == {i \in 1..Len(resp) : ~resp[i].targets_ok}
    IN  IF bad = {} THEN Len(resp)
        ELSE (CHOOSE i \in bad : \A j \in bad : i <= j) - 1

LbDeleteCalls(resp) ==
    LET NoTargets(i) == ~resp[i].has_targets IN SelectSeq(Ids(LbReached(resp)), NoTargets)

UnusedLbs(resp) ==
    LET Ok(i) == resp[i].delete_ok IN SelectSeq(LbDeleteCalls(resp), Ok)

LbSavings(unused_lbs) == Len(unused_lbs) * ALB_SAVING

Step11 ==
    /\ pc = "step11"
    /\ \/ Raise(11, <<>>) /\ UNCHANGED cost_savings         \* describe_load_balancers raises
       \/ \E resp \in SeqsUpTo(LbResponses, Size(11)) :
            LET unused_lbs == UnusedLbs(resp) IN
            /\ cost_savings' = cost_savings + LbSavings(unused_lbs)
            /\ IF LbReached(resp) < Len(resp)
               THEN Raise(11, LbDeleteCalls(resp))          \* describe_target_groups raises
               ELSE /\ summary' = summary \o
                          Optional(unused_lbs # <<>>,
                                   Entry(11, "Deleted unused load balancers", <<>>, <<Len(unused_lbs)>>))
                    /\ loc' = [step |-> 11, raised |-> FALSE, calls |-> LbDeleteCalls(resp),
                               succeeded |-> unused_lbs]
                    /\ pc' = "step12"
                    /\ UNCHANGED <<buckets, report, result, profile>>

(* 12. Set CloudWatch log retention *)
LogGroup(has_retention, days, put_ok) ==
    [has_retention |-> has_retention, retentionInDays |-> days, put_ok |-> put_ok]

LogGroupPool ==
    { LogGroup(FALSE, 0, TRUE), LogGroup(FALSE, 0, FALSE), LogGroup(TRUE, 30, TRUE),
      LogGroup(TRUE, 31, TRUE), LogGroup(TRUE, 31, FALSE) }

NeedsRetention(lg) == ~lg.has_retention \/ lg.retentionInDays > LOG_RETENTION_DAYS

LogPutCalls(log_groups) ==
    LET Needs(i) == NeedsRetention(log_groups[i]) IN SelectSeq(Ids(Len(log_groups)), Needs)

UpdatedLogs(log_groups) ==
    LET Ok(i) == log_groups[i].put_ok IN Len(SelectSeq(LogPutCalls(log_groups), Ok))

Step12 ==
    /\ pc = "step12"
    /\ \/ Raise(12, <<>>) /\ UNCHANGED cost_savings         \* describe_log_groups raises
       \/ \E log_groups \in SeqsUpTo(LogGroupPool, Size(12)) :
            LET updated_logs == UpdatedLogs(log_groups)
                Ok(i) == log_groups[i].put_ok
            IN  /\ summary' = summary \o
                       Optional(updated_logs > 0,
                                Entry(12, "Set 30-day retention on log groups", <<>>, <<updated_logs>>))
                /\ loc' = [step |-> 12, raised |-> FALSE, calls |-> LogPutCalls(log_groups),
                           succeeded |-> SelectSeq(LogPutCalls(log_groups), Ok)]
                /\ pc' = "step13"
                /\ UNCHANGED <<cost_savings, buckets, report, result, profile>>

(* 13. Identify low-utilization instances.  One metric response per running
   instance, the Average of each data point in percent. *)
CpuResponses ==
    { MetricResponse(FALSE, <<>>), MetricResponse(TRUE, <<>>), MetricResponse(TRUE, <<5>>),
      MetricResponse(TRUE, <<4, 5>>), MetricResponse(TRUE, <<3, 8>>) }

(* avg_cpu < LOW_CPU_THRESHOLD, with avg_cpu = sum / len *)
IsLowCpu(r) ==
    r.ok /\ r.Datapoints # <<>> /\ SumSeq(r.Datapoints) < LOW_CPU_THRESHOLD * Len(r.Datapoints)

LowCpu(all, resp) ==
    LET Low(i) == IsLowCpu(resp[i]) IN SelectSeq(Ids(Len(all)), Low)

Step13 ==
    /\ pc = "step13"
    /\ \/ Raise(13, <<>>) /\ UNCHANGED cost_savings         \* describe_instances raises
       \/ \E running \in SeqsUpTo(RunningPool, Size(13)) :
          \E resp \in [1..Len(Flatten(running)) -> CpuResponses] :
            LET all == Flatten(running)
                low == LowCpu(all, resp)
                low_cpu_instances ==
                    Entry(13, "Low utilization instances (consider downsizing)",
                          [j \in 1..Len(low) |-> all[low[j]].InstanceId],
                          [j \in 1..Len(low) |->
                              Fmt(SumSeq(resp[low[j]].Datapoints), Len(resp[low[j]].Datapoints), 10)])
            IN  /\ summary' = summary \o Optional(low # <<>>, low_cpu_instances)
                /\ loc' = [step |-> 13, raised |-> FALSE, calls |-> low]
                /\ pc' = "step14"
                /\ UNCHANGED <<cost_savings, buckets, report, result, profile>>

(* 14. Untagged volumes older than the threshold.  get_resource_age is called
   for the volumes without tags only. *)
Volume(tagged, created, now, state) ==
    [tagged |-> tagged, CreateTime |-> created, now |-> now, State |-> state]

VolumePool ==
    { Volume(t, c, n, st) : t \in BOOLEAN, c \in VolumeInstants, n \in ClockReadings,
                            st \in {"available", "in-use"} }

IsOldUntagged(vol) ==
    ~vol.tagged /\ get_resource_age(vol.CreateTime, vol.now) > CLEANUP_UNTAGGED_AFTER_DAYS

UntaggedVolumes(volumes) ==
    LET Hit(i) == IsOldUntagged(volumes[i]) /\ volumes[i].State = "available"
    IN  SelectSeq(Ids(Len(volumes)), Hit)

Step14 ==
    /\ pc = "step14"
    /\ \/ Raise(14, <<>>) /\ UNCHANGED cost_savings         \* describe_volumes raises
       \/ \E volumes \in SeqsUpTo(VolumePool, Size(14)) :
            LET untagged_volumes == UntaggedVolumes(volumes) IN
            /\ summary' = summary \o
                   Optional(untagged_volumes # <<>>,
                            Entry(14, "Found untagged volumes older than threshold", <<>>,
                                  <<Len(untagged_volumes)>>))
            /\ loc' = [step |-> 14, raised |-> FALSE, volumes |-> volumes,
                       calls |-> untagged_volumes]
            /\ pc' = "step15"
            /\ UNCHANGED <<cost_savings, buckets, report, result, profile>>

(* 15. Cost analysis.  A cost response is ResultsByTime: a sequence of periods,
   each a sequence of groups; a group is a service and its amount in cents. *)
Group15(service, amount) == [service |-> service, cost |-> amount]

FirstPeriods(n) ==
    UNION { { [i \in 1..m |-> Group15(i, a[i])] : a \in [1..m -> {1, 2}] } : m \in 0..n }

LaterPeriods ==
    { <<Group15(1, 3)>>, <<Group15(2, 1), Group15(MaxServices + 1, 2)>> }

CostResponses ==
    LET n == IF profile = 15 THEN MaxServices ELSE Size(15)
        k == IF profile = 15 THEN MaxPeriods - 1 ELSE 0
    IN  {<<>>} \cup { <<p>> \o rest : p \in FirstPeriods(n), rest \in SeqsUpTo(LaterPeriods, k) }

(* monthly_costs[service] = cost, on a dictionary kept in insertion order *)
Put(d, g) ==
    IF \E i \in 1..Len(d) : d[i].service = g.service
    THEN [d EXCEPT ![CHOOSE i \in 1..Len(d) : d[i].service = g.service] = g]
    ELSE Append(d, g)

RECURSIVE PutAll(_, _)
PutAll(d, groups) == IF groups = <<>> THEN d ELSE PutAll(Put(d, Head(groups)), Tail(groups))

MonthlyCosts(results) == PutAll(<<>>, Flatten(results))

(* sorted(items, key=cost, reverse=True): stable, items of equal cost keep
   their order.  An item goes behind the items already placed whose cost is
   at least its own. *)
InsertDesc(sorted, g) ==
    LET k == Cardinality({j \in 1..Len(sorted) : sorted[j].cost >= g.cost})
    IN  SubSeq(sorted, 1, k) \o <<g>> \o SubSeq(sorted, k + 1, Len(sorted))

RECURSIVE SortInto(_, _)
SortInto(sorted, d) ==
    IF d = <<>> THEN sorted ELSE SortInto(InsertDesc(sorted, Head(d)), Tail(d))

SortedDesc(d) == SortInto(<<>>, d)

TopCosts(d) == SubSeq(SortedDesc(d), 1, IF Len(d) < TOP_N THEN Len(d) ELSE TOP_N)

TotalMonthly(d) == SumSeq([i \in 1..Len(d) |-> d[i].cost])

Step15 ==
    /\ pc = "step15"
    /\ \/ /\ summary' = summary                             \* get_cost_and_usage raises: caught
          /\ loc' = [step |-> 15, raised |-> TRUE, results |-> <<>>]
       \/ \E results \in CostResponses :
            LET monthly_costs == MonthlyCosts(results)
                top_costs == TopCosts(monthly_costs)
            IN  /\ summary' = summary \o
                       << Entry(15, "Top 5 cost drivers",
                                [i \in 1..Len(top_costs) |-> top_costs[i].service],
                                [i \in 1..Len(top_costs) |-> top_costs[i].cost]),
                          Entry(15, "Total monthly cost", <<>>, <<TotalMonthly(monthly_costs)>>) >>
                /\ loc' = [step |-> 15, raised |-> FALSE, results |-> results]
    /\ pc' = "report"
    /\ UNCHANGED <<cost_savings, buckets, report, result, profile>>

----------------------------------------------------------------------------
(* Summary: the savings entry is appended to `summary`, and `report` is
   "\n".join(summary).  The savings entry starts with a newline, so it gives the
   report an empty line followed by the savings line. *)
(* variant: the entry states no savings *)
SavingsEntryZero(savings) == Entry(16, "\nEstimated monthly savings", <<>>, <<0>>)

SavingsEntry(savings) == Entry(16, "\nEstimated monthly savings", <<>>, <<savings>>)

Lines(entry) ==
    IF entry.text = "\nEstimated monthly savings"
    THEN << Entry(entry.step, "", <<>>, <<>>),
            Entry(entry.step, "Estimated monthly savings", entry.ids, entry.nums) >>
    ELSE << entry >>

(* variant: the entries are joined last to first *)
JoinReversed(entries) ==
    Flatten([i \in 1..Len(entries) |-> Lines(entries[Len(entries) + 1 - i])])

Join(entries) == Flatten([i \in 1..Len(entries) |-> Lines(entries[i])])

Report ==
    /\ pc = "report"
    /\ summary' = Append(summary, SavingsEntry(cost_savings))
    /\ report' = Join(summary')
    /\ loc' = [step |-> 16, raised |-> FALSE]
    /\ pc' = "publish"
    /\ UNCHANGED <<cost_savings, buckets, result, profile>>

(* publish_sns, then the return.  With no topic configured nothing is sent;
   sns.publish is called outside any try block. *)
Publish ==
    /\ pc = "publish"
    /\ \/ Raise(17, <<>>) /\ UNCHANGED cost_savings         \* sns.publish raises
       \/ \E configured \in BOOLEAN :
            /\ result' = [status |-> "completed", summary |-> summary,
                          estimated_savings |-> cost_savings]
            /\ loc' = [step |-> 17, raised |-> FALSE, calls |-> IF configured THEN <<report>> ELSE <<>>]
            /\ pc' = "done"
            /\ UNCHANGED <<summary, cost_savings, buckets, report, profile>>

Next ==
    \/ Step1 \/ Step2 \/ Step3 \/ Step4 \/ Step5 \/ Step6 \/ Step7 \/ Step8
    \/ Step9 \/ Step10 \/ Step11 \/ Step12 \/ Step13 \/ Step14 \/ Step15
    \/ Report \/ Publish

Spec == Init /\ [][Next]_vars

----------------------------------------------------------------------------
(* Vocabulary of the properties *)

CheckSteps == 1..15

StepPcs == [k \in CheckSteps |-> "step" \o ToString(k)]

(* number of check steps that ran to their end *)
StepsDone ==
    IF pc = "aborted" THEN (IF loc.step > 15 THEN 15 ELSE loc.step - 1)
    ELSE IF \E k \in CheckSteps : StepPcs[k] = pc
         THEN (CHOOSE k \in CheckSteps : StepPcs[k] = pc) - 1
         ELSE 15

(* the step that ran last, when it ran to its end *)
Completed(k) == loc.step = k /\ ~loc.raised

EntriesOf(k) == Cardinality({i \in 1..Len(summary) : summary[i].step = k})

(* the count a step's entry states, 0 when the step appended none *)
StepCount(k) ==
    IF EntriesOf(k) = 0 THEN 0
    ELSE summary[CHOOSE i \in 1..Len(summary) : summary[i].step = k].nums[1]

IsPrefix(a, b) == Len(a) <= Len(b) /\ SubSeq(b, 1, Len(a)) = a

Last(seq) == seq[Len(seq)]

----------------------------------------------------------------------------
(* C1: whatever provider calls fail, the invocation runs every later step and
   returns status "completed": no failure of a call made by one of the fifteen
   steps ends the invocation. *)
C1_NoStepFailureAborts == ~(pc = "aborted" /\ loc.step \in CheckSteps)

(* C2, as stated: in a completed invocation each of the fifteen steps has
   appended exactly one entry. *)
C2_OneEntryPerStep == pc = "done" => \A k \in CheckSteps : EntriesOf(k) = 1

(* C2, amended: steps 1, 2, 3, 5, 6, 7 and 8 append exactly one entry each;
   step 4 appends one entry per bucket it deleted; each of steps 9 to 14
   appends one entry when it has something to report and none otherwise;
   step 15 appends two entries when the cost query returns and none when it
   raises; so the sequence before the savings line has between 7 and
   15 + (number of buckets) entries. *)
C2_EntriesPerStep ==
    /\ \A k \in {1, 2, 3, 5, 6, 7, 8} : EntriesOf(k) = (IF k <= StepsDone THEN 1 ELSE 0)
    /\ \A k \in 9..14 : EntriesOf(k) <= 1
    /\ EntriesOf(4) <= Len(buckets)
    /\ EntriesOf(15) \in {0, 2}
    /\ Completed(4) => EntriesOf(4) = Len(loc.calls)
    /\ \A k \in {9, 13, 14} : Completed(k) => (EntriesOf(k) = 1 <=> loc.calls # <<>>)
    /\ \A k \in {10, 11, 12} : Completed(k) => (EntriesOf(k) = 1 <=> loc.succeeded # <<>>)
    /\ loc.step = 15 => EntriesOf(15) = (IF loc.raised THEN 0 ELSE 2)
    /\ pc = "report" => Len(summary) >= 7 /\ Len(summary) <= 15 + Len(buckets)

C2_Witness ==
    /\ pc = "done"
    /\ EntriesOf(4) = 2
    /\ EntriesOf(9) = 0
    /\ EntriesOf(15) = 2
    /\ Len(summary) = 12

(* the entries stand in step order, and the report lists them in that order,
   then an empty line and the savings line *)
C3_Ordered ==
    /\ \A i, j \in 1..Len(summary) : i < j => summary[i].step <= summary[j].step
    /\ pc \in {"publish", "done"} =>
         LET n == Len(summary) - 1 IN
         /\ Len(report) = n + 2
         /\ \A i \in 1..n : report[i] = summary[i] /\ report[i].step \in CheckSteps
         /\ report[n + 1].text = ""
         /\ Last(report).text = "Estimated monthly savings"
         /\ Last(report).nums = <<cost_savings>>

(* C3: `summary` only grows at its end, its entries stand in step order, and
   the report lists them in that order, then the savings line as last line. *)
C3_AppendOnlyInStepOrder == [](C3_Ordered) /\ [][IsPrefix(summary, summary')]_vars

C3_Witness == pc = "done" /\ EntriesOf(4) = 2 /\ EntriesOf(5) = 1 /\ Len(report) = 13

(* the total in one state: zero at entry, never negative, the sum of the
   contributions the entries of steps 9 and 11 state *)
C4_Total ==
    /\ cost_savings >= 0
    /\ pc = "step1" => cost_savings = 0
    /\ pc # "aborted" => cost_savings = 5 * StepCount(9) + 1825 * StepCount(11)
    /\ Completed(9) => cost_savings = 5 * Len(loc.calls)
    /\ pc = "done" => result.estimated_savings = 5 * StepCount(9) + 1825 * StepCount(11)

(* C4: cost_savings starts at zero, is never negative, never decreases, and
   is 0.05 per snapshot counted by step 9 plus 18.25 per load balancer
   deleted by step 11; estimated_savings is that total. *)
C4_SavingsTotal == [](C4_Total) /\ [][cost_savings' >= cost_savings]_vars

C4_Witness == pc = "done" /\ StepCount(9) = 2 /\ StepCount(11) = 1
              /\ result.estimated_savings = 1835

(* C5: in steps 9 to 12 the count of the summary entry is the number of items
   whose call succeeded. *)
C5_CountsSucceeded ==
    \A k \in 9..12 : Completed(k) => StepCount(k) = Len(loc.succeeded)

(* C6, as stated: producing the report leaves `summary` and cost_savings as
   they are, and the returned sequence holds entries of check steps only. *)
C6_ReportIsPureRead ==
    /\ [][pc = "report" => summary' = summary /\ cost_savings' = cost_savings]_vars
    /\ [](pc = "done" => \A i \in 1..Len(result.summary) : result.summary[i].step \in CheckSteps)

(* what is returned: `summary` as the report step left it, the entries of the
   check steps followed by the savings entry *)
C6_Returned ==
    pc = "done" =>
      LET n == Len(result.summary) - 1 IN
      /\ result.summary = summary
      /\ result.estimated_savings = cost_savings
      /\ \A i \in 1..n : result.summary[i].step \in CheckSteps
      /\ Last(result.summary).text = "\nEstimated monthly savings"
      /\ Last(result.summary).nums = <<result.estimated_savings>>
      /\ Len(report) = n + 2
      /\ Last(report).nums = Last(result.summary).nums

(* C6, amended: producing the report appends the savings entry to `summary`
   and leaves cost_savings as it is; the report is the join of the sequence so
   extended, and the returned sequence is the entries of the check steps
   followed by the savings entry as its last element. *)
C6_ReportAppendsSavings ==
    /\ [][pc = "report" =>
            /\ Len(summary') = Len(summary) + 1
            /\ IsPrefix(summary, summary')
            /\ Last(summary').text = "\nEstimated monthly savings"
            /\ Last(summary').nums = <<cost_savings>>
            /\ cost_savings' = cost_savings]_vars
    /\ [](C6_Returned)

C6_Witness == pc = "done" /\ result.estimated_savings = 1830 /\ Len(result.summary) = 12

(* C7: step 10 passes to delete_security_group no group named "default" and
   no group whose id an instance in a state other than terminated refers to. *)
C7_DeletesOnlyUnusedGroups ==
    Completed(10) =>
      LET all == Flatten(loc.reservations) IN
      \A c \in 1..Len(loc.calls) :
        LET sg == loc.security_groups[loc.calls[c]] IN
        /\ sg.GroupName # "default"
        /\ \A i \in 1..Len(all) :
             all[i].State # "terminated" =>
               \A j \in 1..Len(all[i].SecurityGroups) : all[i].SecurityGroups[j] # sg.GroupId

C7_Witness ==
    /\ Completed(10)
    /\ Len(loc.security_groups) = 2
    /\ Len(loc.calls) = 1
    /\ loc.security_groups[loc.calls[1]].GroupId = 1
    /\ \E r \in 1..Len(loc.reservations) :
         loc.reservations[r][1].State = "terminated"
         /\ loc.reservations[r][1].SecurityGroups = <<1>>
    /\ \E r \in 1..Len(loc.reservations) :
         loc.reservations[r][1].State = "running"
         /\ loc.reservations[r][1].SecurityGroups = <<2>>
    /\ \E g \in 1..2 : loc.security_groups[g].GroupId = 2

(* step k has just reported that the free tier is exceeded *)
Exceeds(k) ==
    Last(summary).step = k /\
    Last(summary).text \in { "EC2 usage likely exceeds Free Tier", "S3 storage exceeds free tier",
                            "Lambda usage exceeded free tier", "RDS usage likely exceeds Free Tier" }

(* C8: each free-tier check reports "exceeds" exactly when the usage estimate
   is strictly greater than the ceiling; usage equal to the ceiling is within
   limits, and a window without data points gives usage zero, within limits. *)
C8_StrictCeilings ==
    /\ Completed(5) => (Exceeds(5) <=> loc.usage > 750)
    /\ Completed(6) =>
         /\ Exceeds(6) <=> loc.usage > 5 * 1024
         /\ (\A b \in 1..Len(loc.resp) : loc.resp[b].Datapoints = <<>>)
              => loc.usage = 0 /\ ~Exceeds(6)
    /\ Completed(7) =>
         /\ Exceeds(7) <=> loc.usage > 1000000
         /\ loc.datapoints = <<>> => loc.usage = 0 /\ ~Exceeds(7)
    /\ Completed(8) => (Exceeds(8) <=> loc.usage > 750)
    /\ \A k \in 5..8 : Completed(k) => Last(summary).step = k /\ Last(summary).nums # <<>>

C8_Witness ==
    /\ Completed(6)
    /\ Len(loc.resp) = 2
    /\ loc.usage = 5 * 1024
    /\ Last(summary).text = "S3 storage within free tier"
    /\ Last(summary).nums = <<500>>

(* `age` is the number of whole days in `elapsed` seconds *)
IsFloorOfDays(age, elapsed) == age * 86400 <= elapsed /\ elapsed < (age + 1) * 86400

(* C9: the age is the floor of the elapsed time in days; step 9 issues a
   delete for a snapshot exactly when its age is greater than
   SNAPSHOT_RETENTION_DAYS, and step 14 lists an untagged available volume
   exactly when its age is greater than CLEANUP_UNTAGGED_AFTER_DAYS. *)
C9_AgeThresholds ==
    /\ Completed(9) =>
         \A i \in 1..Len(loc.StartTime) :
           LET elapsed == loc.now[i] - loc.StartTime[i]
               called == \E c \in 1..Len(loc.calls) : loc.calls[c] = i
           IN  /\ IsFloorOfDays(get_resource_age(loc.StartTime[i], loc.now[i]), elapsed)
               /\ called <=> elapsed >= (SNAPSHOT_RETENTION_DAYS + 1) * 86400
    /\ Completed(14) =>
         \A i \in 1..Len(loc.volumes) :
           LET vol == loc.volumes[i]
               elapsed == vol.now - vol.CreateTime
               listed == \E c \in 1..Len(loc.calls) : loc.calls[c] = i
           IN  /\ IsFloorOfDays(get_resource_age(vol.CreateTime, vol.now), elapsed)
               /\ listed <=> /\ ~vol.tagged
                             /\ vol.State = "available"
                             /\ elapsed >= (CLEANUP_UNTAGGED_AFTER_DAYS + 1) * 86400

C9_Witness ==
    /\ Completed(9)
    /\ Len(loc.StartTime) = 2
    /\ loc.now[1] - loc.StartTime[1] = 31 * 86400 - 1
    /\ loc.now[2] - loc.StartTime[2] = 31 * 86400
    /\ loc.calls = <<2>>

(* C10: the cost of a service is the sum of its amounts over all periods of
   the response, the total is the sum of every group amount, and the top
   entry holds at most five services, the costliest, in descending order. *)
C10_SumsOverPeriods ==
    Completed(15) =>
      LET groups == Flatten(loc.results)
          Cost(svc) == SumSeq([i \in 1..Len(groups) |->
                                  IF groups[i].service = svc THEN groups[i].cost ELSE 0])
          top == summary[Len(summary) - 1]
          total == Last(summary)
      IN  /\ total.nums = <<SumSeq([i \in 1..Len(groups) |-> groups[i].cost])>>
          /\ Len(top.ids) <= 5
          /\ \A i \in 1..Len(top.ids) : top.nums[i] = Cost(top.ids[i])
          /\ \A i, j \in 1..Len(top.ids) : i < j => top.nums[i] >= top.nums[j]
          /\ \A i \in 1..Len(groups) :
               (\A j \in 1..Len(top.ids) : top.ids[j] # groups[i].service)
                 => \A j \in 1..Len(top.ids) : top.nums[j] >= Cost(groups[i].service)

====
